---- MODULE Spec2Model ----
(***************************************************************************)
(* CustomSlugField (services/fields.py): a Django SlugField that fills the *)
(* slug attribute of a model instance in pre_save from another attribute   *)
(* of the instance.                                                        *)
(*                                                                         *)
(* Values.  A Python str is a sequence of characters; a character is a     *)
(* TLA+ string: the ASCII characters are themselves and the other letters  *)
(* are named ("schwa" is U+0259, "SCHWA" is U+018F, "c_ced" is U+00E7,     *)
(* ...).  Python's None, where a str may also stand, is the value None     *)
(* below, which is no str.                                                 *)
(***************************************************************************)
EXTENDS Integers, Sequences, FiniteSets, TLC

(* ------------------------------------------------------------------ *)
(* Bounds of the model.                                               *)
(* ------------------------------------------------------------------ *)
\* instances of the model class in memory where several records are saved
MaxRecs == 2
\* instances in memory where one record is saved against the rows of a table
MaxSolo == 1

(* ------------------------------------------------------------------ *)
(* Python values.                                                     *)
(* ------------------------------------------------------------------ *)
None == <<"None">>
EmptyStr == <<>>

\* bool(v) of a str or None
Truthy(v) == v # None /\ v # EmptyStr

\* str(v): a str is itself, str(None) is the four letters "None"
Str(v) == IF v = None THEN <<"N", "o", "n", "e">> ELSE v

RECURSIVE Digits(_)
\* the decimal digits of n >= 0, as f"{n}" renders them
Digits(n) ==
    LET d == << <<"0">>, <<"1">>, <<"2">>, <<"3">>, <<"4">>,
                <<"5">>, <<"6">>, <<"7">>, <<"8">>, <<"9">> >>
    IN  IF n < 10 THEN d[n + 1] ELSE Digits(n \div 10) \o d[(n % 10) + 1]

(* ------------------------------------------------------------------ *)
(* django.utils.text.slugify, as generate_slug calls it.              *)
(* ------------------------------------------------------------------ *)
\* unicodedata.normalize("NFKD", c).encode("ascii", "ignore"): the base
\* letter of a letter with a combining mark, nothing for a letter that has
\* no ASCII decomposition
AsciiFold(c) ==
    CASE c = "c_ced" -> <<"c">>
      [] c = "C_CED" -> <<"C">>
      [] c = "g_breve" -> <<"g">>
      [] c = "G_BREVE" -> <<"G">>
      [] c = "DOTTED_I" -> <<"I">>
      [] c = "o_uml" -> <<"o">>
      [] c = "O_UML" -> <<"O">>
      [] c = "s_ced" -> <<"s">>
      [] c = "S_CED" -> <<"S">>
      [] c = "u_uml" -> <<"u">>
      [] c = "U_UML" -> <<"U">>
      [] c \in {"schwa", "SCHWA", "dotless_i"} -> <<>>
      [] OTHER -> <<c>>

\* str.lower() of one character
Lower(c) ==
    CASE c = "A" -> "a"
      [] c = "B" -> "b"
      [] c = "C" -> "c"
      [] c = "E" -> "e"
      [] c = "G" -> "g"
      [] c = "I" -> "i"
      [] c = "N" -> "n"
      [] c = "O" -> "o"
      [] c = "S" -> "s"
      [] c = "U" -> "u"
      [] c = "C_CED" -> "c_ced"
      [] c = "SCHWA" -> "schwa"
      [] c = "G_BREVE" -> "g_breve"
      [] c = "DOTTED_I" -> "i"
      [] c = "O_UML" -> "o_uml"
      [] c = "S_CED" -> "s_ced"
      [] c = "U_UML" -> "u_uml"
      [] OTHER -> c

\* \s of the regular expressions
IsSpace(c) == c \in {" ", "\t"}

\* what [^\w\s-] removes: punctuation
IsPunct(c) == c \in {"!", "@", ".", ","}

RECURSIVE FoldAll(_)
FoldAll(s) == IF s = <<>> THEN <<>> ELSE AsciiFold(Head(s)) \o FoldAll(Tail(s))

RECURSIVE LowerAll(_)
LowerAll(s) == IF s = <<>> THEN <<>> ELSE <<Lower(Head(s))>> \o LowerAll(Tail(s))

RECURSIVE DropPunct(_)
\* re.sub(r"[^\w\s-]", "", value)
DropPunct(s) ==
    IF s = <<>> THEN <<>>
    ELSE IF IsPunct(Head(s)) THEN DropPunct(Tail(s))
    ELSE <<Head(s)>> \o DropPunct(Tail(s))

IsSep(c) == IsSpace(c) \/ c = "-"

RECURSIVE Collapse(_)
\* re.sub(r"[-\s]+", "-", value)
Collapse(s) ==
    IF s = <<>> THEN <<>>
    ELSE IF IsSep(Head(s))
         THEN IF Tail(s) # <<>> /\ IsSep(Head(Tail(s)))
              THEN Collapse(Tail(s))
              ELSE <<"-">> \o Collapse(Tail(s))
         ELSE <<Head(s)>> \o Collapse(Tail(s))

RECURSIVE LStrip(_)
LStrip(s) ==
    IF s # <<>> /\ Head(s) \in {"-", "_"} THEN LStrip(Tail(s)) ELSE s

RECURSIVE RStrip(_)
RStrip(s) ==
    IF s # <<>> /\ s[Len(s)] \in {"-", "_"}
    THEN RStrip(SubSeq(s, 1, Len(s) - 1)) ELSE s

\* value.strip("-_")
StripDashes(s) == RStrip(LStrip(s))

\* slugify(value, allow_unicode)
Slugify(value, allow_unicode) ==
    LET v0 == Str(value)
        v1 == IF allow_unicode THEN v0 ELSE FoldAll(v0)
    IN  StripDashes(Collapse(DropPunct(LowerAll(v1))))

(* ------------------------------------------------------------------ *)
(* str.replace and replace_symbols.                                   *)
(* ------------------------------------------------------------------ *)
IsPrefix(p, s) == Len(p) <= Len(s) /\ SubSeq(s, 1, Len(p)) = p

RECURSIVE ReplaceNonEmpty(_, _, _)
\* s.replace(sym, rep) for a non-empty sym: leftmost occurrences, no overlap
ReplaceNonEmpty(s, sym, rep) ==
    IF s = <<>> THEN <<>>
    ELSE IF IsPrefix(sym, s)
         THEN rep \o ReplaceNonEmpty(SubSeq(s, Len(sym) + 1, Len(s)), sym, rep)
         ELSE <<Head(s)>> \o ReplaceNonEmpty(Tail(s), sym, rep)

RECURSIVE Interleave(_, _)
\* s.replace("", rep): rep before every character and at the end
Interleave(s, rep) ==
    IF s = <<>> THEN rep ELSE rep \o <<Head(s)>> \o Interleave(Tail(s), rep)

StrReplace(s, sym, rep) ==
    IF sym = <<>> THEN Interleave(s, rep) ELSE ReplaceNonEmpty(s, sym, rep)

(* ------------------------------------------------------------------ *)
(* Field configuration: CustomSlugField.__init__ and its class data.  *)
(* ------------------------------------------------------------------ *)
\* a symbol_mapping value: tag "None" is None, "str" the string "default",
\* "tuple" / "list" a sequence of items; an item is a tuple or not, and
\* holds its elements (a str or None each)
Pair(symbol, replacement) == [tuple |-> TRUE, elems |-> <<symbol, replacement>>]
NoMapping == [tag |-> "None", items |-> <<>>]
DefaultArg == [tag |-> "str", items |-> <<>>]

DEFAULT_SYMBOL_MAPPING ==
    [tag |-> "tuple",
     items |-> << Pair(<<"c_ced">>, <<"c">>), Pair(<<"C_CED">>, <<"C">>),
                  Pair(<<"schwa">>, <<"e">>), Pair(<<"SCHWA">>, <<"E">>),
                  Pair(<<"g_breve">>, <<"g">>), Pair(<<"G_BREVE">>, <<"G">>),
                  Pair(<<"dotless_i">>, <<"i">>), Pair(<<"DOTTED_I">>, <<"I">>),
                  Pair(<<"o_uml">>, <<"o">>), Pair(<<"O_UML">>, <<"O">>),
                  Pair(<<"s_ced">>, <<"s">>), Pair(<<"S_CED">>, <<"S">>),
                  Pair(<<"u_uml">>, <<"u">>), Pair(<<"U_UML">>, <<"U">>) >>]

\* source_field is a field name; PyNone is None where a name may stand
PyNone == "<None>"

\* the keyword arguments of the constructor; unique and allow_unicode go to
\* SlugField through **kwargs
FieldInit(args) ==
    [source_field |-> args.source_field,
     overwrite |-> args.overwrite,
     symbol_mapping |-> IF args.symbol_mapping = DefaultArg
                        THEN DEFAULT_SYMBOL_MAPPING ELSE args.symbol_mapping,
     allow_manual |-> args.allow_manual,
     unique |-> args.unique,
     allow_unicode |-> args.allow_unicode]

\* bool(self.source_field) and bool(self.symbol_mapping)
NameSet(f) == f # PyNone /\ f # ""
MappingSet(m) == m.tag # "None" /\ m.items # <<>>

(* ------------------------------------------------------------------ *)
(* replace_symbols.                                                   *)
(* ------------------------------------------------------------------ *)
RECURSIVE ReplaceItems(_, _)
\* the for loop: unpacking an item that has not two elements raises
\* ValueError, str.replace with a None argument raises TypeError
ReplaceItems(items, value) ==
    IF items = <<>> THEN [raised |-> "", val |-> value]
    ELSE LET item == Head(items)
         IN  IF Len(item.elems) # 2 THEN [raised |-> "ValueError", val |-> value]
             ELSE IF item.elems[1] = None \/ item.elems[2] = None
                  THEN [raised |-> "TypeError", val |-> value]
                  ELSE ReplaceItems(Tail(items),
                                    StrReplace(value, item.elems[1], item.elems[2]))

replace_symbols(c, source_value) ==
    IF source_value = None THEN [raised |-> "", val |-> EmptyStr]
    ELSE ReplaceItems(c.symbol_mapping.items, source_value)

(* ------------------------------------------------------------------ *)
(* generate_slug.                                                     *)
(* ------------------------------------------------------------------ *)
\* hexadecimal text of a UUID, numbered
UuidText(n) == <<"f">> \o Digits(n)

\* str(uuid.uuid4()): a text that is nowhere in use; which of the unused
\* texts it is makes no difference, and the first one stands for them all
Uuid4(used) ==
    UuidText(CHOOSE n \in 1 .. Cardinality(used) + 1 :
               /\ UuidText(n) \notin used
               /\ \A m \in 1 .. n - 1 : UuidText(m) \in used)

\* the query with .filter(pk=pk) in place of .exclude(pk=pk)
ExistsSelf(table, unique_slug, pk) ==
    \E row \in table : row.slug = unique_slug /\ row.pk = pk

\* the query without .exclude(pk=pk)
ExistsAny(table, unique_slug, pk) == \E row \in table : row.slug = unique_slug

\* objects.filter(slug=unique_slug).exclude(pk=pk).exists(); pk 0 is an
\* unset pk, which no row has
Exists(table, unique_slug, pk) ==
    \E row \in table : row.slug = unique_slug /\ row.pk # pk

\* f"{slug_value}-{counter}"
Suffixed(slug_value, counter) == slug_value \o <<"-">> \o Digits(counter)

RECURSIVE ProbeChained(_, _, _, _, _)
\* the loop with the suffix appended to unique_slug: foo, foo-1, foo-1-2
ProbeChained(table, pk, slug_value, unique_slug, counter) ==
    IF Exists(table, unique_slug, pk)
    THEN ProbeChained(table, pk, slug_value, Suffixed(unique_slug, counter), counter + 1)
    ELSE [slug |-> unique_slug, checks |-> counter]

RECURSIVE Probe(_, _, _, _, _)
\* the while loop, entered with unique_slug and counter; checks counts the
\* evaluations of its condition
Probe(table, pk, slug_value, unique_slug, counter) ==
    IF Exists(table, unique_slug, pk)
    THEN Probe(table, pk, slug_value, Suffixed(slug_value, counter), counter + 1)
    ELSE [slug |-> unique_slug, checks |-> counter]

\* slug_value or slugify(str(uuid.uuid4()))
Fallback(slug_value, used) ==
    IF slug_value # EmptyStr THEN slug_value ELSE Slugify(Uuid4(used), FALSE)

generate_slug(c, source_value, pk, table, used) ==
    LET base == Slugify(source_value, c.allow_unicode)
        p == IF c.unique THEN Probe(table, pk, base, base, 1)
             ELSE [slug |-> base, checks |-> 0]
    IN  [slug |-> Fallback(p.slug, used),
         base |-> base,
         checks |-> p.checks,
         uuid |-> p.slug = EmptyStr]

(* ------------------------------------------------------------------ *)
(* pre_save.                                                          *)
(* ------------------------------------------------------------------ *)
\* the condition without "and not self.allow_manual"
GeneratesManual(c, i) == (~Truthy(i.slug) \/ c.overwrite) /\ NameSet(c.source_field)

\* the condition without "not getattr(model_instance, self.attname) or"
GeneratesAlways(c, i) == NameSet(c.source_field) /\ ~c.allow_manual

\* the condition of the if statement
Generates(c, i) ==
    (~Truthy(i.slug) \/ c.overwrite) /\ NameSet(c.source_field) /\ ~c.allow_manual

\* getattr(model_instance, self.source_field) on an instance that carries
\* the attribute name
GetAttr(i, f) ==
    IF f = "name" THEN [raised |-> "", val |-> i.name]
    ELSE [raised |-> "AttributeError", val |-> None]

\* the slug attribute after the hook and what the hook did on the way
pre_save(c, i, table, used) ==
    LET idle == [raised |-> "", slug |-> i.slug, ran |-> FALSE, base |-> EmptyStr,
                 checks |-> 0, uuid |-> FALSE]
    IN  IF ~Generates(c, i) THEN idle
        ELSE LET a == GetAttr(i, c.source_field)
                 m == IF a.raised # "" THEN a
                      ELSE IF MappingSet(c.symbol_mapping)
                           THEN replace_symbols(c, a.val) ELSE a
             IN  IF m.raised # "" THEN [idle EXCEPT !.raised = m.raised, !.ran = TRUE]
                 ELSE LET g == generate_slug(c, m.val, i.pk, table, used)
                      IN  [raised |-> "", slug |-> g.slug, ran |-> TRUE,
                           base |-> g.base, checks |-> g.checks, uuid |-> g.uuid]

(* ------------------------------------------------------------------ *)
(* The program state.                                                 *)
(* ------------------------------------------------------------------ *)
VARIABLES
    cfg,       \* the slug field of the model class, as __init__ left it
    enforced,  \* whether the table carries the UNIQUE index of unique=True
    inst,      \* the model instances in memory: made, pk (0 unset), name, slug
    db,        \* the table: rows [pk, slug]
    last,      \* history: the instance whose save was the latest operation, what
               \* it raised, and whether the operation before was a save of it too
    pc,        \* where each instance's save stands when saves interleave
    loc,       \* the locals of generate_slug in a save that is under way
    migr       \* deconstruct() output and the field rebuilt from it

vars == <<cfg, enforced, inst, db, last, pc, loc, migr>>

Recs == 1 .. MaxRecs
SoloRecs == 1 .. MaxSolo

\* values of the name attribute that the program assigns
Names == { None, EmptyStr, <<" ">>, <<"a">>, <<"A", " ", "schwa", "@">> }

\* slugs that a caller sets by hand
ManualSlugs == { EmptyStr, <<"a">> }

Row(pk, slug) == [pk |-> pk, slug |-> slug]

\* tables found at start: empty, or rows written before the field generated
\* slugs: one whose slug column is empty (the column default) and rows that
\* hold a slug and its first two successors
Tables ==
    { {},
      { Row(1, <<"a">>), Row(2, <<"a", "-", "1">>), Row(3, <<"a", "-", "2">>),
        Row(4, EmptyStr) } }

NoInst == [made |-> FALSE, pk |-> 0, name |-> EmptyStr, slug |-> EmptyStr]
NoLast == [rec |-> 0, raised |-> "", again |-> FALSE]
NoLoc == [slug_value |-> EmptyStr, unique_slug |-> EmptyStr, counter |-> 0]
NoKwargs ==
    [source_field |-> <<>>, overwrite |-> <<>>, symbol_mapping |-> <<>>,
     allow_manual |-> <<>>]

\* symbol_mapping arguments made of (symbol, replacement) pairs of str
CustomMapping == [tag |-> "list", items |-> << Pair(<<"@">>, <<"a", "t">>) >>]
GoodMappings == { NoMapping, DefaultArg, CustomMapping }

Args(sf, ow, sm, am, un, au) ==
    [source_field |-> sf, overwrite |-> ow, symbol_mapping |-> sm,
     allow_manual |-> am, unique |-> un, allow_unicode |-> au]

\* fields whose declaration passes the schema check and whose mapping holds
\* pairs of str
GoodArgs ==
    { Args(sf, ow, sm, am, un, au) :
        sf \in {PyNone, "", "name"}, ow \in BOOLEAN, sm \in GoodMappings,
        am \in BOOLEAN, un \in BOOLEAN, au \in BOOLEAN }

\* the UNIQUE index comes from unique=True, when the table was made with it
InitWith(args, tables, index) ==
    /\ cfg \in { FieldInit(a) : a \in args }
    /\ enforced \in { e \in index : e => cfg.unique }
    /\ db \in tables
    /\ inst = [r \in Recs |-> NoInst]
    /\ last = NoLast
    /\ pc = [r \in Recs |-> "idle"]
    /\ loc = [r \in Recs |-> NoLoc]
    /\ migr = [stage |-> "init", kwargs |-> NoKwargs, clone |-> cfg]

Init == InitWith(GoodArgs, Tables, {FALSE})

(* ------------------------------------------------------------------ *)
(* Operations of the caller on an instance.                           *)
(* ------------------------------------------------------------------ *)
\* TestModel(name=..., slug=...)
New(r, name, slug) ==
    /\ ~inst[r].made
    /\ \A q \in Recs : q < r => inst[q].made
    /\ inst' = [inst EXCEPT ![r] = [made |-> TRUE, pk |-> 0, name |-> name, slug |-> slug]]
    /\ last' = NoLast
    /\ UNCHANGED <<cfg, enforced, db, pc, loc, migr>>

\* instance.name = v
SetName(r, v) ==
    /\ inst[r].made
    /\ inst[r].name # v
    /\ inst' = [inst EXCEPT ![r].name = v]
    /\ last' = NoLast
    /\ UNCHANGED <<cfg, enforced, db, pc, loc, migr>>

(* ------------------------------------------------------------------ *)
(* Model.save(): pre_save of the field, then the row is written.      *)
(* ------------------------------------------------------------------ *)
Max(S) == IF S = {} THEN 0 ELSE CHOOSE x \in S : \A y \in S : y <= x

\* the pk of the row an instance is written to: its own, or the next one
\* of the AutoField
RowPk(i, table) == IF i.pk # 0 THEN i.pk ELSE Max({ row.pk : row \in table }) + 1

\* the UNIQUE index refuses every duplicate, whatever the table was made with
RefusedAlways(table, pk, slug) == Exists(table, slug, pk)

\* the UNIQUE index refuses a slug that another row holds
Refused(table, pk, slug) == enforced /\ Exists(table, slug, pk)

\* the table after the row of pk is inserted or updated
Written(table, pk, slug) == { row \in table : row.pk # pk } \cup { Row(pk, slug) }

\* the slugs in use: those of the rows and of the instances in memory
InUse(table, insts) ==
    { row.slug : row \in table } \cup { insts[r].slug : r \in DOMAIN insts }

Save(r) ==
    /\ pc[r] = "idle"
    /\ inst[r].made
    /\ \E p \in { pre_save(cfg, inst[r], db, InUse(db, inst)) } :
       LET i == inst[r]
           pk == RowPk(i, db)
           h == [rec |-> r, raised |-> p.raised,
                 again |-> last.rec = r /\ last.raised = ""]
       IN  /\ IF p.raised # ""
              THEN /\ last' = h
                   /\ UNCHANGED <<inst, db>>
              ELSE IF Refused(db, pk, p.slug)
              THEN /\ last' = [h EXCEPT !.raised = "IntegrityError"]
                   /\ inst' = [inst EXCEPT ![r].slug = p.slug]
                   /\ UNCHANGED db
              ELSE /\ last' = h
                   /\ inst' = [inst EXCEPT ![r].slug = p.slug, ![r].pk = pk]
                   /\ db' = Written(db, pk, p.slug)
    /\ UNCHANGED <<cfg, enforced, pc, loc, migr>>

Next ==
    \/ \E r \in SoloRecs, name \in Names, slug \in ManualSlugs : New(r, name, slug)
    \/ \E r \in SoloRecs, v \in Names : SetName(r, v)
    \/ \E r \in SoloRecs : Save(r)

Spec == Init /\ [][Next]_vars

(* ------------------------------------------------------------------ *)
(* Properties of one save against a table.                            *)
(* ------------------------------------------------------------------ *)
\* the trigger condition in the words of the design: manual slugs are not
\* allowed, a source field is named, and the slug is empty or overwrite is set
Qualifies(c, i) ==
    /\ c.allow_manual = FALSE
    /\ c.source_field \notin {PyNone, ""}
    /\ (i.slug = EmptyStr \/ c.overwrite = TRUE)

\* the string the source attribute is turned into before normalization
Transliterated(c, v) ==
    IF MappingSet(c.symbol_mapping) THEN replace_symbols(c, v).val ELSE v

\* another record than pk holds slug s
Taken(table, pk, s) == \E row \in table : row.pk # pk /\ row.slug = s

OtherRows(table, pk) == { row \in table : row.pk # pk }

\* s is a UUID-derived token; no more texts are in use than there are rows
\* and instances
IsToken(s) == \E n \in 1 .. 2 * MaxRecs + 4 : s = Slugify(UuidText(n), FALSE)

\* what uniqueness resolution is to return for base B
Resolved(table, pk, B, s) ==
    IF ~Taken(table, pk, B) THEN s = B
    ELSE \E k \in 1 .. Cardinality(OtherRows(table, pk)) + 1 :
            /\ s = Suffixed(B, k)
            /\ ~Taken(table, pk, s)
            /\ \A j \in 1 .. k - 1 : Taken(table, pk, Suffixed(B, j))

\* C1: a save overwrites the slug attribute with the generated slug if and
\* only if the trigger condition holds, and otherwise leaves the attribute
\* as it was (a manually set slug stays under allow_manual).
C1_Trigger ==
    [][\A r \in Recs : Save(r) =>
         LET i == inst[r]
         IN  IF Qualifies(cfg, i)
             THEN inst'[r].slug =
                    generate_slug(cfg, Transliterated(cfg, i.name), i.pk, db, InUse(db, inst)).slug
             ELSE inst'[r].slug = i.slug]_vars

C1_Witness ==
    /\ last.rec = 1 /\ last.raised = ""
    /\ cfg.allow_manual /\ cfg.source_field = "name" /\ cfg.overwrite
    /\ cfg.symbol_mapping = DEFAULT_SYMBOL_MAPPING
    /\ inst[1].slug = <<"a">> /\ inst[1].name = <<"A", " ", "schwa", "@">>

\* C3 as stated: with unique set, every qualifying save of base slug B
\* yields B when no other record holds B, else B-k for the least k >= 1
\* that no other record holds.
C3_AnyBase ==
    [][\A r \in Recs : (Save(r) /\ cfg.unique /\ Qualifies(cfg, inst[r])) =>
         LET i == inst[r]
             B == Slugify(Transliterated(cfg, i.name), cfg.allow_unicode)
         IN  Resolved(db, i.pk, B, inst'[r].slug)]_vars

\* C3 amended: the same for a non-empty base slug B, and the loop makes at
\* most (number of other records + 1) existence checks.
C3_Resolution ==
    [][\A r \in Recs : (Save(r) /\ cfg.unique /\ Qualifies(cfg, inst[r])) =>
         LET i == inst[r]
             B == Slugify(Transliterated(cfg, i.name), cfg.allow_unicode)
             p == pre_save(cfg, i, db, InUse(db, inst))
         IN  /\ B # EmptyStr => Resolved(db, i.pk, B, inst'[r].slug)
             /\ p.checks <= Cardinality(OtherRows(db, i.pk)) + 1]_vars

C3_Witness ==
    /\ last.rec = 1 /\ last.raised = "" /\ cfg.unique
    /\ inst[1].name = <<"a">> /\ inst[1].slug = <<"a", "-", "3">>
    /\ { <<"a">>, <<"a", "-", "1">>, <<"a", "-", "2">> }
         \subseteq { row.slug : row \in OtherRows(db, inst[1].pk) }

\* the source attribute is the empty string or whitespace only
Blank(v) == v \in { EmptyStr, <<" ">> }

\* C4: after a qualifying save the slug is not empty, and for an empty or
\* whitespace-only source it is the UUID-derived token, whatever the table
\* holds.
C4_Fallback ==
    [][\A r \in Recs : (Save(r) /\ Qualifies(cfg, inst[r])) =>
         /\ inst'[r].slug # EmptyStr
         /\ Blank(inst[r].name) => IsToken(inst'[r].slug)]_vars

\* C6: in a qualifying save a source attribute of None gives the slug that
\* a source attribute of "" gives.
C6_NoneAsEmpty ==
    [][\A r \in Recs : (Save(r) /\ Qualifies(cfg, inst[r]) /\ inst[r].name = None) =>
         inst'[r].slug =
           pre_save(cfg, [inst[r] EXCEPT !.name = EmptyStr], db, InUse(db, inst)).slug]_vars

\* C10: with overwrite and unique set, saving a persisted record again,
\* nothing else having changed since its save, leaves its slug as it is
\* when the base slug is not empty.
C10_Resave ==
    [][\A r \in Recs :
         ( /\ Save(r)
           /\ last.rec = r /\ last.raised = ""
           /\ cfg.overwrite /\ cfg.unique /\ Qualifies(cfg, inst[r])
           /\ Slugify(Transliterated(cfg, inst[r].name), cfg.allow_unicode) # EmptyStr )
         => inst'[r].slug = inst[r].slug]_vars

C10_Witness ==
    /\ last.rec = 1 /\ last.again /\ last.raised = ""
    /\ cfg.overwrite /\ cfg.unique /\ ~cfg.allow_manual /\ cfg.source_field = "name"
    /\ inst[1].name = <<"a">> /\ inst[1].slug = <<"a", "-", "3">>

(* ------------------------------------------------------------------ *)
(* Several records, each made with an empty slug and saved in turn.   *)
(* ------------------------------------------------------------------ *)
\* the field as TestModel declares it: unique, generated from name, with
\* either value of overwrite, with and without the default mapping
AutoArgs ==
    { Args("name", ow, sm, FALSE, TRUE, FALSE) :
        ow \in BOOLEAN, sm \in {NoMapping, DefaultArg} }

InitAuto == InitWith(AutoArgs, { {} }, {FALSE})

\* names that give an empty base slug, a base slug, and the same or another
\* base slug depending on the mapping
AutoNames == { EmptyStr, <<"a">>, <<"A", " ", "schwa", "@">> }

NextAuto ==
    \/ \E r \in Recs, name \in AutoNames : New(r, name, EmptyStr)
    \/ \E r \in Recs, v \in AutoNames : SetName(r, v)
    \/ \E r \in Recs : Save(r)

SpecAuto == InitAuto /\ [][NextAuto]_vars

\* C2: no two rows of the table carry the same slug.
C2_NoDuplicates ==
    \A x \in db : \A y \in db : x.pk # y.pk => x.slug # y.slug

C2_Witness ==
    /\ last.rec = 2 /\ last.raised = ""
    /\ inst[1].name = <<"a">> /\ inst[2].name = <<"a">>
    /\ inst[1].pk # 0 /\ inst[2].pk # 0
    /\ inst[1].slug = <<"a">> /\ inst[2].slug = <<"a", "-", "1">>

\* C5: without overwrite, no step changes a slug attribute that is not
\* empty, whatever happens to the source attribute or to other records.
C5_KeepsSlug ==
    [][\A r \in Recs :
         ( /\ cfg.overwrite = FALSE /\ cfg.allow_manual = FALSE
           /\ inst[r].made /\ inst[r].slug # EmptyStr )
         => inst'[r].slug = inst[r].slug]_vars

C5_Witness ==
    /\ last.rec = 1 /\ last.raised = "" /\ ~cfg.overwrite
    /\ inst[1].slug = <<"a">> /\ inst[1].name = <<"A", " ", "schwa", "@">>
    /\ inst[2].pk # 0

(* ------------------------------------------------------------------ *)
(* Saves that interleave: every query and every write is one step.    *)
(* ------------------------------------------------------------------ *)
\* pre_save up to the while loop of generate_slug
Enter(r) ==
    /\ pc[r] = "idle"
    /\ inst[r].made
    /\ LET i == inst[r]
           a == GetAttr(i, cfg.source_field)
           m == IF a.raised # "" THEN a
                ELSE IF MappingSet(cfg.symbol_mapping)
                     THEN replace_symbols(cfg, a.val) ELSE a
           slug_value == Slugify(m.val, cfg.allow_unicode)
       IN  IF ~Generates(cfg, i)
           THEN /\ pc' = [pc EXCEPT ![r] = "write"]
                /\ UNCHANGED <<inst, loc, last>>
           ELSE IF m.raised # ""
           THEN /\ last' = [rec |-> r, raised |-> m.raised, again |-> FALSE]
                /\ UNCHANGED <<inst, loc, pc>>
           ELSE IF cfg.unique
           THEN /\ loc' = [loc EXCEPT ![r] = [slug_value |-> slug_value,
                                              unique_slug |-> slug_value,
                                              counter |-> 1]]
                /\ pc' = [pc EXCEPT ![r] = "probe"]
                /\ UNCHANGED <<inst, last>>
           ELSE /\ inst' = [inst EXCEPT ![r].slug = Fallback(slug_value, InUse(db, inst))]
                /\ pc' = [pc EXCEPT ![r] = "write"]
                /\ UNCHANGED <<loc, last>>
    /\ UNCHANGED <<cfg, enforced, db, migr>>

\* one evaluation of the loop condition; when it is false, the rest of
\* generate_slug and the setattr of pre_save
Check(r) ==
    /\ pc[r] = "probe"
    /\ IF Exists(db, loc[r].unique_slug, inst[r].pk)
       THEN /\ loc' = [loc EXCEPT ![r].unique_slug =
                                     Suffixed(loc[r].slug_value, loc[r].counter),
                                  ![r].counter = loc[r].counter + 1]
            /\ UNCHANGED <<inst, pc>>
       ELSE /\ inst' = [inst EXCEPT ![r].slug =
                                      Fallback(loc[r].unique_slug, InUse(db, inst))]
            /\ pc' = [pc EXCEPT ![r] = "write"]
            /\ loc' = [loc EXCEPT ![r] = NoLoc]
    /\ UNCHANGED <<cfg, enforced, db, last, migr>>

\* the row is written
Write(r) ==
    /\ pc[r] = "write"
    /\ LET i == inst[r]
           pk == RowPk(i, db)
       IN  IF Refused(db, pk, i.slug)
           THEN /\ last' = [rec |-> r, raised |-> "IntegrityError", again |-> FALSE]
                /\ UNCHANGED <<inst, db>>
           ELSE /\ last' = [rec |-> r, raised |-> "", again |-> FALSE]
                /\ inst' = [inst EXCEPT ![r].pk = pk]
                /\ db' = Written(db, pk, i.slug)
    /\ pc' = [pc EXCEPT ![r] = "idle"]
    /\ UNCHANGED <<cfg, enforced, loc, migr>>

RaceArgs == { Args("name", ow, DefaultArg, FALSE, TRUE, FALSE) : ow \in BOOLEAN }

InitRace == InitWith(RaceArgs, { {} }, BOOLEAN)

\* names of an empty and of a non-empty base slug
RaceNames == { EmptyStr, <<"a">> }

NextRace ==
    \/ \E r \in Recs, name \in RaceNames : New(r, name, EmptyStr)
    \/ \E r \in Recs : Enter(r)
    \/ \E r \in Recs : Check(r)
    \/ \E r \in Recs : Write(r)

SpecRace == InitRace /\ [][NextRace]_vars

\* C9: where the table has no UNIQUE index, a write is never refused and
\* stores the slug its save settled on, also when another record took that
\* slug after the save's last query.
C9_Undetected ==
    [][\A r \in Recs : (Write(r) /\ ~enforced) =>
         /\ last'.raised = ""
         /\ inst'[r].slug = inst[r].slug
         /\ Row(inst'[r].pk, inst[r].slug) \in db']_vars

\* two saves of different records passed the same probe and both rows are
\* written with the same slug
C9_Duplicate ==
    /\ ~enforced /\ cfg.unique
    /\ \A r \in Recs : pc[r] = "idle"
    /\ last.raised = ""
    /\ inst[1].pk # 0 /\ inst[2].pk # 0
    /\ inst[1].slug = <<"a">> /\ inst[2].slug = <<"a">>
    /\ Row(inst[1].pk, <<"a">>) \in db /\ Row(inst[2].pk, <<"a">>) \in db

(* ------------------------------------------------------------------ *)
(* The schema check and deconstruct.                                  *)
(* ------------------------------------------------------------------ *)
\* the fields of TestModel and their classes
ModelFields ==
    [name |-> "CharField", description |-> "TextField", slug |-> "SlugField",
     updated_at |-> "DateTimeField", created_at |-> "DateTimeField"]

\* isinstance(field, models.CharField) or isinstance(field, models.TextField);
\* SlugField is a subclass of CharField
IsTextField(class) == class \in {"CharField", "SlugField", "TextField"}

_check_allow_manual(c) ==
    IF c.allow_manual
       /\ (NameSet(c.source_field) \/ c.overwrite \/ MappingSet(c.symbol_mapping))
    THEN {"fields.W001"} ELSE {}

_check_symbol_mapping(c) ==
    IF c.symbol_mapping.tag # "None"
       /\ ~(\A k \in DOMAIN c.symbol_mapping.items :
              /\ c.symbol_mapping.items[k].tuple
              /\ Len(c.symbol_mapping.items[k].elems) = 2)
    THEN {"fields.E001"} ELSE {}

_check_source_field(c) ==
    IF ~NameSet(c.source_field) THEN {}
    ELSE IF c.source_field \notin DOMAIN ModelFields THEN {"fields.E003"}
    ELSE IF ~IsTextField(ModelFields[c.source_field]) THEN {"fields.E002"}
    ELSE {}

\* the identifiers that check() adds to those of SlugField
check(c) == _check_allow_manual(c) \cup _check_symbol_mapping(c) \cup _check_source_field(c)

Errors(c) == check(c) \cap {"fields.E001", "fields.E002", "fields.E003"}

\* the keyword arguments deconstruct() adds: <<>> for a key it leaves out,
\* <<v>> for a key it gives value v
deconstruct(c) ==
    [source_field |-> IF c.source_field # PyNone THEN <<c.source_field>> ELSE <<>>,
     overwrite |-> IF c.overwrite THEN <<c.overwrite>> ELSE <<>>,
     symbol_mapping |-> IF c.symbol_mapping.tag # "None"
                           /\ c.symbol_mapping # DEFAULT_SYMBOL_MAPPING
                        THEN <<c.symbol_mapping>> ELSE <<>>,
     allow_manual |-> IF c.allow_manual THEN <<c.allow_manual>> ELSE <<>>]

\* a keyword argument, or the default of the parameter where it is left out
Arg(kw, default) == IF kw = <<>> THEN default ELSE kw[1]

\* CustomSlugField(**kwargs); unique and allow_unicode are in the keyword
\* arguments that SlugField.deconstruct() gives
Rebuilt(c, kwargs) ==
    FieldInit(Args(Arg(kwargs.source_field, PyNone), Arg(kwargs.overwrite, FALSE),
                   Arg(kwargs.symbol_mapping, NoMapping),
                   Arg(kwargs.allow_manual, FALSE), c.unique, c.allow_unicode))

\* makemigrations: the field is deconstructed
Deconstruct ==
    /\ migr.stage = "init"
    /\ \A r \in Recs : ~inst[r].made
    /\ migr' = [migr EXCEPT !.stage = "deconstructed", !.kwargs = deconstruct(cfg)]
    /\ UNCHANGED <<cfg, enforced, inst, db, last, pc, loc>>

\* migrate: the field is built again from the keyword arguments
Reconstruct ==
    /\ migr.stage = "deconstructed"
    /\ \A r \in Recs : ~inst[r].made
    /\ migr' = [migr EXCEPT !.stage = "reconstructed",
                            !.clone = Rebuilt(cfg, migr.kwargs)]
    /\ UNCHANGED <<cfg, enforced, inst, db, last, pc, loc>>

\* symbol_mapping arguments of other shapes
EmptyMapping == [tag |-> "list", items |-> <<>>]
TripleMapping ==
    [tag |-> "list",
     items |-> << [tuple |-> TRUE, elems |-> << <<"@">>, <<"a">>, <<"t">> >>] >>]
ListItemMapping ==
    [tag |-> "list", items |-> << [tuple |-> FALSE, elems |-> << <<"@">>, <<"a">> >>] >>]
NoneMapping == [tag |-> "list", items |-> << Pair(<<"@">>, None) >>]

AllMappings ==
    GoodMappings \cup { EmptyMapping, TripleMapping, ListItemMapping, NoneMapping }

\* every way of declaring the field on TestModel
AllArgs ==
    { Args(sf, ow, sm, am, un, FALSE) :
        sf \in {PyNone, "", "name", "created_at", "missing"}, ow \in BOOLEAN,
        sm \in AllMappings, am \in BOOLEAN, un \in BOOLEAN }

InitConfig == InitWith(AllArgs, { {} }, {FALSE})

\* a schema whose check reports an error is not deployed: no record of it
\* is saved
Deployed == Errors(cfg) = {}

NewDeployed(r, name) == Deployed /\ New(r, name, EmptyStr)
SaveDeployed(r) == Deployed /\ Save(r)

NextConfig ==
    \/ Deconstruct
    \/ Reconstruct
    \/ \E r \in SoloRecs, name \in Names : NewDeployed(r, name)
    \/ \E r \in SoloRecs : SaveDeployed(r)

SpecConfig == InitConfig /\ [][NextConfig]_vars

\* C7: where the schema check reports no error, a save does not raise.
C7_NoRaise ==
    (last.rec # 0 /\ Errors(cfg) = {}) => last.raised = ""

\* C8: the field built from the deconstructed keyword arguments has the
\* source_field, overwrite, symbol_mapping and allow_manual of the
\* original, and the keyword arguments leave out every option at its
\* default and a symbol_mapping that is the built-in table.
C8_RoundTrip ==
    migr.stage = "reconstructed" =>
        /\ migr.clone.source_field = cfg.source_field
        /\ migr.clone.overwrite = cfg.overwrite
        /\ migr.clone.symbol_mapping = cfg.symbol_mapping
        /\ migr.clone.allow_manual = cfg.allow_manual
        /\ cfg.source_field = PyNone => migr.kwargs.source_field = <<>>
        /\ cfg.overwrite = FALSE => migr.kwargs.overwrite = <<>>
        /\ cfg.allow_manual = FALSE => migr.kwargs.allow_manual = <<>>
        /\ cfg.symbol_mapping \in {NoMapping, DEFAULT_SYMBOL_MAPPING}
             => migr.kwargs.symbol_mapping = <<>>

====
